---- MODULE Spec2Model ----
(***************************************************************************)
(* scripts/reassign-all-services.py: a one-shot script that makes one      *)
(* account ("nest") the owner of every service record of the Redis hash    *)
(* scheduler:services and then rebuilds that account's cached service list *)
(* nest:<id>:services.  Every store access is a redis-cli round trip.      *)
(*                                                                         *)
(* The model keeps the store (the e-mail mapping key, the hash, the cached *)
(* lists), the script's local variables and its position, the wall clock   *)
(* read through `date`, and a log of the write commands sent to the store. *)
(***************************************************************************)
EXTENDS Integers, Sequences, FiniteSets, TLC

\* ------------------------------------------------------------------ bounds
\* At most this many fields in scheduler:services.
MaxServices == 2
\* The clock read by `date +%s000` runs from 1 to MaxClock.
MaxClock == 2

\* ----------------------------------------------------------- Python values
\* A value json.loads can return, tagged with its Python type.
PyStr(s) == [kind |-> "str", val |-> s]
PyInt(n) == [kind |-> "int", val |-> n]
PyBool(b) == [kind |-> "bool", val |-> b]
PyList(s) == [kind |-> "list", val |-> s]
PyDict(f) == [kind |-> "dict", items |-> f]
PyNone == [kind |-> "NoneType"]

IsDict(v) == v.kind = "dict"

\* dict.get(key, default)
DictGet(d, key, default) ==
    IF key \in DOMAIN d.items THEN d.items[key] ELSE default

\* A d[key] = v that only adds a key: an existing one keeps its value.
DictSet_KeepExisting(d, key, v) ==
    PyDict([k \in (DOMAIN d.items) \cup {key} |->
                IF k \in DOMAIN d.items THEN d.items[k] ELSE v])

\* A d[key] = v that rebuilds the dict from the fields the script names.
DictSet_KnownFieldsOnly(d, key, v) ==
    LET known == {"nestId", "name", "type", "target", "interval", "enabled",
                  "createdAt", "updatedAt", "lastCheck", "monitoring"}
    IN PyDict([k \in ((DOMAIN d.items) \cap known) \cup {key} |->
                   IF k = key THEN v ELSE d.items[k]])

\* d[key] = v
DictSet(d, key, v) ==
    PyDict([k \in (DOMAIN d.items) \cup {key} |->
                IF k = key THEN v ELSE d.items[k]])

\* ------------------------------------------------------------------- JSON
\* A stored text: the JSON value it denotes and the separator style it is
\* written in.  "compact" is what the application writes (no blanks),
\* "python" is json.dumps' default (", " and ": ").  A text that is not JSON
\* denotes the value Invalid.
Invalid == [kind |-> "invalid"]
Text(sep, v) == [sep |-> sep, value |-> v]
NotJson == Text("none", Invalid)
\* redis-cli prints an empty line for a missing hash field.
EmptyReply == Text("none", Invalid)

\* json.loads raises JSONDecodeError on this text
JSONDecodeError(text) == text.value = Invalid
json_loads(text) == text.value
json_dumps(v) == Text("python", v)

\* --------------------------------------------------------- redis-cli replies
\* A reply line as str.strip('"') sees it: `lead` quote characters, a body
\* that neither starts nor ends with a quote, `trail` quote characters.
Quoted(n, body, m) == [lead |-> n, body |-> body, trail |-> m]
Plain(body) == Quoted(0, body, 0)
StripQuotes(reply) == reply.body

Absent == [absent |-> TRUE]

\* What `get <key>` prints: the value, or for a missing key either nothing
\* (redis-cli without a terminal) or the "(nil)" sentinel (with one).
GetReplies(v) == IF v = Absent THEN {Plain(""), Plain("(nil)")} ELSE {v}

\* --------------------------------------------------------------- the store
IdNames == <<"svc-a", "svc-b", "svc-c", "svc-d">>
\* A hash field name is a line of words, as `hkeys` prints it.  The service
\* ids the application gives its records are single words; redis-cli,
\* called with a command line split at blanks, can address no other field.
FieldOf(id) == <<id>>

TargetId == "acct-target"
Accounts == {"acct-target", "acct-old", "acct-other"}
Clock == 1..MaxClock

VARIABLES
    emailKey,         \* value of nest:email:moon.pl.kr@gmail.com, or Absent
    services,         \* scheduler:services: field name -> stored text
    hashOrder,        \* the order in which the store enumerates the fields
    nestLists,        \* account id -> value of nest:<id>:services, or Absent
    now,              \* the wall clock
    pc,               \* "start" | "reassign" | "rebuild" | "save" | "exit"
    exit_status,      \* -1 while running, then the process's exit status
    moon_nest_id,
    service_ids,
    idx,              \* position of the running for loop in service_ids
    reassigned_count,
    services_list,
    stdout,           \* what the run printed: parse errors, the count line
    commands,         \* the write commands the run sent to the store
    start,            \* the store when the run began
    prev,             \* the store when the previous run ended, or Absent
    run               \* the number of the run

store == [email |-> emailKey, services |-> services, nests |-> nestLists]
vars == <<emailKey, services, hashOrder, nestLists, now, pc, exit_status,
          moon_nest_id, service_ids, idx, reassigned_count, services_list,
          stdout, commands, start, prev, run>>

\* ------------------------------------------------------------ sample data
\* The monitoring object the script supplies for a record without one.
DefaultMonitoring ==
    PyDict([regions |-> PyList(<<"eu-central-1", "eu-west-1", "us-east-1">>),
            strategy |-> PyStr("round-robin"),
            minRegions |-> PyInt(1),
            maxRegions |-> PyInt(3)])

\* A record with every field present, none at its default, and a field the
\* script does not know.
RecFull ==
    PyDict([nestId |-> PyStr("acct-old"), name |-> PyStr("web"),
            type |-> PyStr("http"), target |-> PyStr("https://a.example"),
            interval |-> PyInt(30), enabled |-> PyBool(FALSE),
            createdAt |-> PyInt(0), updatedAt |-> PyInt(0),
            lastCheck |-> PyInt(0),
            monitoring |-> PyDict([regions |-> PyList(<<"eu-west-1">>),
                                   strategy |-> PyStr("closest"),
                                   minRegions |-> PyInt(1),
                                   maxRegions |-> PyInt(1)]),
            tags |-> PyList(<<"prod">>)])
\* A record the target account already owns, most optional fields absent.
RecOwned ==
    PyDict([nestId |-> PyStr("acct-target"), name |-> PyStr("api"),
            enabled |-> PyBool(TRUE)])
\* A record without an owner field.
RecNoOwner == PyDict([name |-> PyStr("orphan"), type |-> PyStr("ping")])
\* A record whose monitoring object lacks sub-fields.
RecPartial ==
    PyDict([nestId |-> PyStr("acct-other"), name |-> PyStr("dns"),
            monitoring |-> PyDict([regions |-> PyList(<<"us-east-1">>)])])

Records == {RecFull, RecOwned, RecNoOwner, RecPartial}
\* JSON texts that are not objects: null, 7, "x", [].
NonObjects == {PyNone, PyInt(7), PyStr("x"), PyList(<<>>)}

StoredTexts ==
    {Text("compact", r) : r \in Records} \cup {Text("python", RecOwned)}
        \cup {Text("compact", v) : v \in NonObjects} \cup {NotJson}

\* A cached-list entry left from an earlier state of the store.
StaleEntry(id, owner) ==
    PyDict([id |-> PyStr(id), nestId |-> PyStr(owner), name |-> PyStr("old")])

EmailValues ==
    {Absent, Plain(""), Quoted(1, "", 1), Plain("(nil)"),
     Plain(TargetId), Quoted(1, TargetId, 1)}

\* All orders of the elements of a finite set.
RECURSIVE Orders(_)
Orders(S) ==
    IF S = {} THEN {<<>>}
    ELSE UNION {{<<x>> \o o : o \in Orders(S \ {x})} : x \in S}

\* ------------------------------------------------------------ redis-cli
\* `hkeys scheduler:services`: one line per field, in the store's order.
HKeys == hashOrder

\* str.split(): the whitespace-separated words of the reply.
RECURSIVE Split(_)
Split(lines) ==
    IF lines = <<>> THEN <<>> ELSE Head(lines) \o Split(Tail(lines))

\* `hget scheduler:services <id>`
HGet(id) ==
    IF FieldOf(id) \in DOMAIN services THEN services[FieldOf(id)]
    ELSE EmptyReply

\* `redis-cli -x hset scheduler:services <id>` with the text on stdin
HSet(id, text) ==
    /\ services' = [f \in (DOMAIN services) \cup {FieldOf(id)} |->
                        IF f = FieldOf(id) THEN text ELSE services[f]]
    /\ hashOrder' = IF FieldOf(id) \in DOMAIN services THEN hashOrder
                    ELSE Append(hashOrder, FieldOf(id))
    /\ commands' = Append(commands,
                          [cmd |-> "hset", key |-> "scheduler:services",
                           field |-> id, value |-> text])

\* ------------------------------------------------------------------- Init
Init ==
    /\ emailKey \in EmailValues
    /\ \E n \in 0..MaxServices :
          LET fields == {FieldOf(IdNames[k]) : k \in 1..n} IN
          /\ services \in [fields -> StoredTexts]
          /\ hashOrder \in Orders(fields)
    /\ nestLists \in
          {[a \in Accounts |->
               CASE a = "acct-target" -> t
                 [] a = "acct-old" ->
                      Text("compact",
                           PyList(<<StaleEntry("svc-a", "acct-old")>>))
                 [] OTHER -> Absent] :
           t \in {Absent,
                  Text("compact",
                       PyList(<<StaleEntry("svc-gone", "acct-target")>>))}}
    /\ now = 1
    /\ pc = "start"
    /\ exit_status = -1
    /\ moon_nest_id = ""
    /\ service_ids = <<>>
    /\ idx = 1
    /\ reassigned_count = 0
    /\ services_list = <<>>
    /\ stdout = <<>>
    /\ commands = <<>>
    /\ start = store
    /\ prev = Absent
    /\ run = 1

\* A write that appends the new entries to the list already cached.
SetNestServices_Merge(nest_id, text) ==
    LET old == IF nest_id \in DOMAIN nestLists /\ nestLists[nest_id] # Absent
               THEN nestLists[nest_id].value.val ELSE <<>>
        merged == Text(text.sep, PyList(old \o text.value.val))
    IN
    /\ nestLists' = [a \in (DOMAIN nestLists) \cup {nest_id} |->
                         IF a = nest_id THEN merged ELSE nestLists[a]]
    /\ commands' = Append(commands,
                          [cmd |-> "set", key |-> nest_id, value |-> merged])

\* A write that also empties the list cached for every other account.
SetNestServices_ClearOthers(nest_id, text) ==
    /\ nestLists' = [a \in (DOMAIN nestLists) \cup {nest_id} |->
                         IF a = nest_id THEN text
                         ELSE Text("python", PyList(<<>>))]
    /\ commands' = Append(commands,
                          [cmd |-> "set", key |-> nest_id, value |-> text])

\* `redis-cli -x set nest:<nest_id>:services` with the text on stdin
SetNestServices(nest_id, text) ==
    /\ nestLists' = [a \in (DOMAIN nestLists) \cup {nest_id} |->
                         IF a = nest_id THEN text ELSE nestLists[a]]
    /\ commands' = Append(commands,
                          [cmd |-> "set", key |-> nest_id, value |-> text])

\* ---------------------------------------------------------------- actions
\* A check that forgets the "(nil)" sentinel.
NotFound_EmptyOnly(id) == id = ""

\* Line 23: the lookup found no account.
NotFound(id) == id = "" \/ id = "(nil)"

\* A count of every record written, changed or not.
OwnerChanged_Always(old_nest_id) == TRUE

\* Line 70: the owner changed.
OwnerChanged(old_nest_id) == old_nest_id # PyStr(moon_nest_id)

\* Line 90: the record belongs to the target account.
OwnedByTarget(service_data) ==
    DictGet(service_data, "nestId", PyNone) = PyStr(moon_nest_id)

\* Lines 16-36: resolve the target account, exit 1 if there is none, else
\* enumerate the service ids.
ResolveTarget ==
    /\ pc = "start"
    /\ \E reply \in GetReplies(emailKey) :
          LET id == StripQuotes(reply) IN
          /\ moon_nest_id' = id
          /\ IF NotFound(id)
             THEN /\ pc' = "exit"
                  /\ exit_status' = 1
                  /\ service_ids' = service_ids
             ELSE /\ pc' = "reassign"
                  /\ exit_status' = exit_status
                  /\ service_ids' = Split(HKeys)
    /\ idx' = 1
    /\ reassigned_count' = 0
    /\ UNCHANGED <<emailKey, services, hashOrder, nestLists, now,
                   services_list, stdout, commands, start, prev, run>>

\* Lines 38-75: one iteration of the first loop.  A text that is not JSON
\* is reported and skipped; a JSON value without .get() raises an
\* AttributeError nothing catches, and the interpreter exits with status 1.
ReassignOne ==
    /\ pc = "reassign"
    /\ idx <= Len(service_ids)
    /\ LET service_id == service_ids[idx]
           service_data_str == HGet(service_id)
           service_data == json_loads(service_data_str)
       IN
       IF JSONDecodeError(service_data_str)
       THEN /\ stdout' = Append(stdout, [line |-> "Error parsing JSON",
                                         id |-> service_id])
            /\ idx' = idx + 1
            /\ UNCHANGED <<services, hashOrder, commands, pc, exit_status,
                           reassigned_count>>
       ELSE IF ~IsDict(service_data)
       THEN /\ pc' = "exit"
            /\ exit_status' = 1
            /\ stdout' = Append(stdout, [line |-> "Traceback",
                                         id |-> service_id])
            /\ UNCHANGED <<services, hashOrder, commands, idx,
                           reassigned_count>>
       ELSE LET old_nest_id == DictGet(service_data, "nestId", PyNone)
                updated == DictSet(service_data, "nestId",
                                   PyStr(moon_nest_id))
            IN
            /\ HSet(service_id, json_dumps(updated))
            /\ reassigned_count' =
                   IF OwnerChanged(old_nest_id)
                   THEN reassigned_count + 1 ELSE reassigned_count
            /\ stdout' = Append(stdout, [line |-> "Reassigned",
                                         id |-> service_id])
            /\ idx' = idx + 1
            /\ UNCHANGED <<pc, exit_status>>
    /\ UNCHANGED <<emailKey, nestLists, now, moon_nest_id, service_ids,
                   services_list, start, prev, run>>

\* Lines 77-83: report the count and start the second loop.
ReportCount ==
    /\ pc = "reassign"
    /\ idx > Len(service_ids)
    /\ stdout' = Append(stdout, [line |-> "Reassigned count",
                                 count |-> reassigned_count])
    /\ services_list' = <<>>
    /\ idx' = 1
    /\ pc' = "rebuild"
    /\ UNCHANGED <<emailKey, services, hashOrder, nestLists, now,
                   exit_status, moon_nest_id, service_ids, reassigned_count,
                   commands, start, prev, run>>

\* An entry that takes its id from the record's name.
ServiceObj_NameAsId(service_id, service_data, t1, t2) ==
    PyDict([id |-> DictGet(service_data, "name", PyStr("")),
            nestId |-> PyStr(moon_nest_id),
            name |-> DictGet(service_data, "name", PyStr("")),
            type |-> DictGet(service_data, "type", PyStr("")),
            target |-> DictGet(service_data, "target", PyStr("")),
            interval |-> DictGet(service_data, "interval", PyInt(60)),
            isActive |-> DictGet(service_data, "enabled", PyBool(TRUE)),
            createdAt |-> DictGet(service_data, "createdAt", PyInt(t1)),
            updatedAt |-> PyInt(t2),
            lastCheck |-> DictGet(service_data, "lastCheck", PyNone),
            monitoring |-> DictGet(service_data, "monitoring",
                                   DefaultMonitoring)])

\* An entry that is inactive unless the record says otherwise.
ServiceObj_InactiveByDefault(service_id, service_data, t1, t2) ==
    PyDict([id |-> PyStr(service_id),
            nestId |-> PyStr(moon_nest_id),
            name |-> DictGet(service_data, "name", PyStr("")),
            type |-> DictGet(service_data, "type", PyStr("")),
            target |-> DictGet(service_data, "target", PyStr("")),
            interval |-> DictGet(service_data, "interval", PyInt(60)),
            isActive |-> DictGet(service_data, "enabled", PyBool(FALSE)),
            createdAt |-> DictGet(service_data, "createdAt", PyInt(t1)),
            updatedAt |-> PyInt(t2),
            lastCheck |-> DictGet(service_data, "lastCheck", PyNone),
            monitoring |-> DictGet(service_data, "monitoring",
                                   DefaultMonitoring)])

\* Lines 92-109: the cached-list entry of a record; t1 and t2 are what the
\* two `date +%s000` calls print.
ServiceObj(service_id, service_data, t1, t2) ==
    PyDict([id |-> PyStr(service_id),
            nestId |-> PyStr(moon_nest_id),
            name |-> DictGet(service_data, "name", PyStr("")),
            type |-> DictGet(service_data, "type", PyStr("")),
            target |-> DictGet(service_data, "target", PyStr("")),
            interval |-> DictGet(service_data, "interval", PyInt(60)),
            isActive |-> DictGet(service_data, "enabled", PyBool(TRUE)),
            createdAt |-> DictGet(service_data, "createdAt", PyInt(t1)),
            updatedAt |-> PyInt(t2),
            lastCheck |-> DictGet(service_data, "lastCheck", PyNone),
            monitoring |-> DictGet(service_data, "monitoring",
                                   DefaultMonitoring)])

\* Lines 85-113: one iteration of the second loop.
RebuildOne ==
    /\ pc = "rebuild"
    /\ idx <= Len(service_ids)
    /\ LET service_id == service_ids[idx]
           service_data_str == HGet(service_id)
           service_data == json_loads(service_data_str)
       IN
       IF JSONDecodeError(service_data_str)
       THEN /\ idx' = idx + 1
            /\ UNCHANGED <<services_list, now, pc, exit_status, stdout>>
       ELSE IF ~IsDict(service_data)
       THEN /\ pc' = "exit"
            /\ exit_status' = 1
            /\ stdout' = Append(stdout, [line |-> "Traceback",
                                         id |-> service_id])
            /\ UNCHANGED <<services_list, now, idx>>
       ELSE IF OwnedByTarget(service_data)
       THEN \E t1 \in now..MaxClock : \E t2 \in t1..MaxClock :
               /\ services_list' =
                      Append(services_list,
                             ServiceObj(service_id, service_data, t1, t2))
               /\ now' = t2
               /\ idx' = idx + 1
               /\ UNCHANGED <<pc, exit_status, stdout>>
       ELSE /\ idx' = idx + 1
            /\ UNCHANGED <<services_list, now, pc, exit_status, stdout>>
    /\ UNCHANGED <<emailKey, services, hashOrder, nestLists, moon_nest_id,
                   service_ids, reassigned_count, commands, start, prev, run>>

\* Lines 115-128: overwrite nest:<id>:services with the list and finish.
SaveList ==
    /\ pc = "rebuild"
    /\ idx > Len(service_ids)
    /\ LET services_json == json_dumps(PyList(services_list)) IN
       SetNestServices(moon_nest_id, services_json)
    /\ pc' = "exit"
    /\ exit_status' = 0
    /\ UNCHANGED <<emailKey, services, hashOrder, now, moon_nest_id,
                   service_ids, idx, reassigned_count, services_list, stdout,
                   start, prev, run>>

\* The script is invoked a second time on the store the first run left.
RunAgain ==
    /\ pc = "exit"
    /\ run = 1
    /\ run' = 2
    /\ prev' = store
    /\ start' = store
    /\ pc' = "start"
    /\ exit_status' = -1
    /\ moon_nest_id' = ""
    /\ service_ids' = <<>>
    /\ idx' = 1
    /\ reassigned_count' = 0
    /\ services_list' = <<>>
    /\ stdout' = <<>>
    /\ commands' = <<>>
    /\ \E t \in now..MaxClock : now' = t
    /\ UNCHANGED <<emailKey, services, hashOrder, nestLists>>

Next ==
    \/ ResolveTarget
    \/ ReassignOne
    \/ ReportCount
    \/ RebuildOne
    \/ SaveList

Spec == Init /\ [][Next]_vars

NextTwice == Next \/ RunAgain

SpecTwice == Init /\ [][NextTwice]_vars

\* ------------------------------------------------------------- properties
\* The run ended normally (the last line of main() was reached).
Completed == pc = "exit" /\ exit_status = 0
\* The store names a target account for the e-mail address.
Resolvable ==
    /\ start.email # Absent
    /\ start.email.body # ""
    /\ start.email.body # "(nil)"
\* The loop of the first pass has finished the iteration at position k.
Processed(k) ==
    \/ pc = "rebuild"
    \/ Completed
    \/ (pc = "reassign" \/ (pc = "exit" /\ exit_status = 1)) /\ k < idx
\* The write commands the run sent for a hash field.
HSetsOf(id) ==
    {k \in 1..Len(commands) :
        commands[k].cmd = "hset" /\ commands[k].field = id}
\* The run printed the line that reports a parse error for the id.
ReportedError(id) ==
    \E k \in 1..Len(stdout) :
        stdout[k] = [line |-> "Error parsing JSON", id |-> id]

\* The record a stored text denotes has this owner.
OwnerIs(text, owner) ==
    /\ IsDict(text.value)
    /\ "nestId" \in DOMAIN text.value.items
    /\ text.value.items["nestId"] = PyStr(owner)

\* The entries of the target account's cached list.
CachedList == nestLists[moon_nest_id].value.val
EntriesOf(list, id) == {k \in 1..Len(list) : list[k].items["id"] = PyStr(id)}

C3_UnresolvedWritesNothing ==
    (pc # "start" /\ start.email \in {Absent, Plain(""), Plain("(nil)")}) =>
        /\ pc = "exit"
        /\ exit_status = 1
        /\ commands = <<>>
        /\ store = start

C3_Witness ==
    /\ pc = "exit"
    /\ exit_status = 1
    /\ start.email = Plain("(nil)")
    /\ DOMAIN start.services # {}
    /\ store = start

\* C4: whenever some enumerated id holds a text that is not JSON, the run
\* still gives every other parseable record to the target and writes it
\* back, leaves the malformed text alone, writes a cached list without an
\* entry for the malformed id, and exits with status 0.
C4_MalformedValueIsIsolated ==
    (pc = "exit" /\ Resolvable
       /\ \E f \in DOMAIN start.services : JSONDecodeError(start.services[f]))
    =>
        /\ exit_status = 0
        /\ \E k \in 1..Len(commands) : commands[k].cmd = "set"
        /\ \A f \in DOMAIN start.services :
              IF JSONDecodeError(start.services[f])
              THEN /\ services[f] = start.services[f]
                   /\ HSetsOf(f[1]) = {}
                   /\ EntriesOf(CachedList, f[1]) = {}
              ELSE IsDict(start.services[f].value) =>
                       /\ OwnerIs(services[f], moon_nest_id)
                       /\ HSetsOf(f[1]) # {}

\* C4 with every text of the hash either a JSON object or not JSON at all.
C4_HoldsAmongObjects ==
    (\A f \in DOMAIN start.services :
         IsDict(start.services[f].value) \/ JSONDecodeError(start.services[f]))
    => C4_MalformedValueIsIsolated

\* C8: every id whose text cannot be deserialized as a JSON object, be it
\* no JSON at all or a JSON null, number, string or array, is reported and
\* skipped: the other ids are processed, the cached list is written and the
\* run exits with status 0.
C8_NonObjectIsSkipped ==
    (pc = "exit" /\ Resolvable) =>
        /\ exit_status = 0
        /\ \E k \in 1..Len(commands) : commands[k].cmd = "set"
        /\ \A f \in DOMAIN start.services :
              IF IsDict(start.services[f].value)
              THEN OwnerIs(services[f], moon_nest_id)
              ELSE ReportedError(f[1])

\* C8 for the texts that are not JSON at all.
C8_HoldsForMalformedText ==
    Completed =>
        \A f \in DOMAIN start.services :
            JSONDecodeError(start.services[f]) => ReportedError(f[1])

\* The count line the run printed at the end of the first pass.
CountLines ==
    {k \in 1..Len(stdout) : stdout[k].line = "Reassigned count"}
\* The positions of the enumeration whose record parsed and had, when the
\* run began, an owner other than the target or no owner at all.
ChangedOwner ==
    {k \in 1..Len(service_ids) :
        LET text == start.services[FieldOf(service_ids[k])] IN
        IsDict(text.value) /\ ~OwnerIs(text, moon_nest_id)}
\* The store of the scenario: svc-a owned by acct-old, svc-b by the target.
TwoServiceScenario ==
    /\ DOMAIN start.services = {FieldOf("svc-a"), FieldOf("svc-b")}
    /\ OwnerIs(start.services[FieldOf("svc-a")], "acct-old")
    /\ OwnerIs(start.services[FieldOf("svc-b")], "acct-target")

\* C7: the count reported at the end of the first pass is the number of
\* enumerated ids whose text parsed and whose owner differed from the target
\* when the run began (no owner counts as differing); with svc-a owned by
\* acct-old and svc-b by acct-target the count is 1 and the cached list has
\* two entries.
C7_ReportedCount ==
    /\ \A k \in CountLines : stdout[k].count = Cardinality(ChangedOwner)
    /\ (Completed /\ TwoServiceScenario) =>
          /\ \E k \in CountLines : stdout[k].count = 1
          /\ Len(CachedList) = 2

C7_Witness ==
    /\ Completed
    /\ TwoServiceScenario
    /\ \E k \in CountLines : stdout[k].count = 1

\* C9: for each id the first pass has processed and whose text parsed to a
\* record, the pass sent exactly one write, to the same field of
\* scheduler:services, and the record written is the record fetched with
\* the owner set to the target and every other field, known or not, as it
\* was; the write is sent also when the owner already was the target.  No
\* other field is written.
C9_OneWritePerRecord ==
    /\ \A k \in 1..Len(service_ids) :
          LET id == service_ids[k]
              text == start.services[FieldOf(id)]
          IN
          (Processed(k) /\ IsDict(text.value)) =>
              /\ Cardinality(HSetsOf(id)) = 1
              /\ \A c \in HSetsOf(id) :
                    /\ commands[c].key = "scheduler:services"
                    /\ IsDict(commands[c].value.value)
                    /\ DOMAIN commands[c].value.value.items =
                           (DOMAIN text.value.items) \cup {"nestId"}
                    /\ \A fld \in DOMAIN commands[c].value.value.items :
                          commands[c].value.value.items[fld] =
                              IF fld = "nestId" THEN PyStr(moon_nest_id)
                              ELSE text.value.items[fld]
                    /\ services[FieldOf(id)] = commands[c].value
    /\ \A c \in 1..Len(commands) :
          commands[c].cmd = "hset" =>
              \E k \in 1..Len(service_ids) :
                  /\ service_ids[k] = commands[c].field
                  /\ IsDict(start.services[FieldOf(service_ids[k])].value)

C9_Witness ==
    /\ pc = "rebuild"
    /\ \E f, g \in DOMAIN start.services :
          /\ start.services[f].value = RecOwned
          /\ start.services[g].value = RecFull
          /\ Cardinality(HSetsOf(f[1])) = 1
          /\ Cardinality(HSetsOf(g[1])) = 1
          /\ services[g].value.items["tags"] = RecFull.items["tags"]

\* C10: a run writes nothing but fields of scheduler:services that it
\* enumerated when it began and the cached list of the target account: the
\* e-mail mapping and the cached list of every other account stay as they
\* were, so a reassigned service is still listed under its previous owner.
C10_OnlyHashFieldsAndTargetList ==
    /\ emailKey = start.email
    /\ DOMAIN services = DOMAIN start.services
    /\ DOMAIN nestLists = DOMAIN start.nests
    /\ \A a \in DOMAIN nestLists :
          (pc = "start" \/ a # moon_nest_id) => nestLists[a] = start.nests[a]
    /\ \A f \in DOMAIN services :
          services[f] # start.services[f] =>
              \E k \in 1..Len(service_ids) : FieldOf(service_ids[k]) = f
    /\ \A c \in 1..Len(commands) :
          \/ /\ commands[c].cmd = "hset"
             /\ commands[c].key = "scheduler:services"
             /\ FieldOf(commands[c].field) \in DOMAIN start.services
          \/ /\ commands[c].cmd = "set"
             /\ commands[c].key = moon_nest_id

C10_Witness ==
    /\ Completed
    /\ FieldOf("svc-a") \in DOMAIN start.services
    /\ OwnerIs(start.services[FieldOf("svc-a")], "acct-old")
    /\ OwnerIs(services[FieldOf("svc-a")], moon_nest_id)
    /\ EntriesOf(nestLists["acct-old"].value.val, "svc-a") # {}
    /\ nestLists["acct-old"] = start.nests["acct-old"]

\* The record from which the run built the entry.
RecordOf(entry) == services[FieldOf(entry.items["id"].val)].value
\* The monitoring sub-fields and their documented defaults.
MonitoringDefaults ==
    [regions |-> PyList(<<"eu-central-1", "eu-west-1", "us-east-1">>),
     strategy |-> PyStr("round-robin"),
     minRegions |-> PyInt(1),
     maxRegions |-> PyInt(3)]
\* interval and isActive of the entry follow the record or their defaults.
ScalarDefaults(entry, rec) ==
    /\ entry.items["interval"] =
           IF "interval" \in DOMAIN rec.items THEN rec.items["interval"]
           ELSE PyInt(60)
    /\ entry.items["isActive"] =
           IF "enabled" \in DOMAIN rec.items THEN rec.items["enabled"]
           ELSE PyBool(TRUE)

\* C6 as stated: in every entry of the cached list each absent optional
\* field has its default field by field, a monitoring sub-field also when
\* the record has a monitoring object without it; a present field is copied.
C6_DefaultsFieldByField ==
    Completed =>
        \A k \in 1..Len(CachedList) :
            LET entry == CachedList[k]
                rec == RecordOf(entry)
            IN
            /\ ScalarDefaults(entry, rec)
            /\ IsDict(entry.items["monitoring"])
            /\ \A sub \in DOMAIN MonitoringDefaults :
                  /\ sub \in DOMAIN entry.items["monitoring"].items
                  /\ entry.items["monitoring"].items[sub] =
                         IF /\ "monitoring" \in DOMAIN rec.items
                            /\ sub \in DOMAIN rec.items["monitoring"].items
                         THEN rec.items["monitoring"].items[sub]
                         ELSE MonitoringDefaults[sub]

\* C6 amended: interval is 60 and isActive is true when the record lacks
\* interval or enabled; monitoring is the whole default object only when the
\* record has no monitoring field, and a monitoring object the record has is
\* copied as it is, also when it lacks sub-fields; present fields are copied.
C6_DefaultsForAbsentFields ==
    Completed =>
        \A k \in 1..Len(CachedList) :
            LET entry == CachedList[k]
                rec == RecordOf(entry)
            IN
            /\ ScalarDefaults(entry, rec)
            /\ entry.items["monitoring"] =
                   IF "monitoring" \in DOMAIN rec.items
                   THEN rec.items["monitoring"]
                   ELSE PyDict(MonitoringDefaults)

C6_Witness ==
    /\ Completed
    /\ \E j, k \in 1..Len(CachedList) :
          /\ RecordOf(CachedList[j]).items["name"] = PyStr("dns")
          /\ "strategy" \notin DOMAIN CachedList[j].items["monitoring"].items
          /\ "monitoring" \notin DOMAIN RecordOf(CachedList[k]).items
          /\ "enabled" \notin DOMAIN RecordOf(CachedList[k]).items
          /\ CachedList[k].items["interval"] = PyInt(60)
          /\ CachedList[k].items["isActive"] = PyBool(TRUE)
          /\ CachedList[k].items["monitoring"].items["maxRegions"] = PyInt(3)

\* The second run has ended.
SecondRunEnded == run = 2 /\ pc = "exit"
\* Two entries agree but for the time stamps the run takes from the clock.
SameButForClock(e1, e2) ==
    /\ DOMAIN e1.items = DOMAIN e2.items
    /\ \A fld \in DOMAIN e1.items :
          \/ e1.items[fld] = e2.items[fld]
          \/ fld = "updatedAt"
          \/ fld = "createdAt" /\ "createdAt" \notin DOMAIN RecordOf(e1).items
\* The value of the target account's cached list, [] for a missing key.
ListOf(nests) ==
    IF TargetId \in DOMAIN nests /\ nests[TargetId] # Absent
    THEN nests[TargetId].value.val ELSE <<>>

\* C5 as stated: after the second of two runs in a row every service record
\* and the target account's cached list equal what the first run left.
C5_SecondRunChangesNothing ==
    SecondRunEnded =>
        /\ services = prev.services
        /\ nestLists[TargetId] = prev.nests[TargetId]

\* C5 amended: after the second run every service record equals what the
\* first run left, and the cached list has an entry for the same service
\* ids, each equal to the first run's entry in every field but updatedAt,
\* and createdAt when the record has none: those are the time of the run.
C5_SecondRunChangesOnlyTimestamps ==
    SecondRunEnded =>
        /\ services = prev.services
        /\ (nestLists[TargetId] = Absent) = (prev.nests[TargetId] = Absent)
        /\ Len(ListOf(nestLists)) = Len(ListOf(prev.nests))
        /\ \A k \in 1..Len(ListOf(nestLists)) :
              \E j \in 1..Len(ListOf(prev.nests)) :
                  /\ ListOf(nestLists)[k].items["id"] =
                         ListOf(prev.nests)[j].items["id"]
                  /\ SameButForClock(ListOf(nestLists)[k],
                                     ListOf(prev.nests)[j])

C5_Witness ==
    /\ SecondRunEnded
    /\ exit_status = 0
    /\ Len(ListOf(nestLists)) = 2
    /\ nestLists[TargetId] # prev.nests[TargetId]
    /\ \E f \in DOMAIN services :
          /\ OwnerIs(services[f], TargetId)
          /\ services[f].sep = "python"
          /\ Cardinality(HSetsOf(f[1])) = 1

====
